---- MODULE Spec2Model ----
(***************************************************************************)
(* A model of the backup scheduler: the Control Surface                    *)
(* (backup_manager.py: create / list / delete / start / stop) and the      *)
(* Worker Loop (backup_service.py: main), which share one schedule file.   *)
(*                                                                         *)
(* Text is modelled as sequences of one-character strings, so that         *)
(* str.split, str.strip, int() and strftime are computed as Python         *)
(* computes them.  The schedule file is its raw character content.         *)
(*                                                                         *)
(* Environment assumptions: file-system calls on the schedule file        *)
(* succeed (no OSError), and the text holds no "\r".  The log files can    *)
(* be written, except in SpecFail, where the worker's log can break.       *)
(*                                                                         *)
(* The specifications share the state:                                     *)
(*   Spec        one worker and one manager command at a time, their file  *)
(*               operations interleaved in every order;                    *)
(*   SpecSeq     the same operations, each run alone from start to end;    *)
(*   SpecSup     start and stop commands of several command-line           *)
(*               processes, interleaved, and the delivery of signals;      *)
(*   SpecSupSeq  start and stop commands issued one after the other;       *)
(*   SpecTick    the worker's ticks alone, on a schedule file as the       *)
(*               worker may find it (written by create commands, by        *)
(*               other programs or by hand);                               *)
(*   SpecMinute  the same, with a tick in every minute of the clock and    *)
(*               fair scheduling;                                          *)
(*   SpecFail    the worker's ticks and create commands, with a log that   *)
(*               can break.                                                *)
(* In Spec and SpecSeq one worker runs throughout.  In SpecSup and         *)
(* SpecSupSeq the workers' ticks, which do not touch the process table,    *)
(* are left out.                                                           *)
(***************************************************************************)
EXTENDS Integers, Sequences, FiniteSets, TLC

\* ------------------------------------------------------------------ text

NL == "\n"
SEMI == ";"
COLON == ":"

\* The characters str.strip() removes (the ASCII whitespace the model uses).
Whitespace == {" ", NL, "\t"}

DigitChars == <<"0", "1", "2", "3", "4", "5", "6", "7", "8", "9">>

IsDigit(c) == \E i \in 1..10 : DigitChars[i] = c

DigitVal(c) == (CHOOSE i \in 1..10 : DigitChars[i] = c) - 1

SetMin(S) == CHOOSE x \in S : \A y \in S : x <= y

SetMax(S) == CHOOSE x \in S : \A y \in S : x >= y

\* str.strip(): the text without its leading and trailing whitespace.
Strip(s) ==
    LET keep == {i \in 1..Len(s) : s[i] \notin Whitespace}
    IN  IF keep = {} THEN <<>> ELSE SubSeq(s, SetMin(keep), SetMax(keep))

\* str.split(sep): the parts between the separators, empty parts included.
RECURSIVE Split(_, _)
Split(s, sep) ==
    LET at == {i \in 1..Len(s) : s[i] = sep}
    IN  IF at = {} THEN <<s>>
        ELSE LET k == SetMin(at)
             IN  <<SubSeq(s, 1, k - 1)>> \o Split(SubSeq(s, k + 1, Len(s)), sep)

\* file.readlines(): the lines of the content, each with its line break;
\* a last line without a line break is a line too.
RECURSIVE ReadLines(_)
ReadLines(content) ==
    LET at == {i \in 1..Len(content) : content[i] = NL}
    IN  IF content = <<>> THEN <<>>
        ELSE IF at = {} THEN <<content>>
        ELSE LET k == SetMin(at)
             IN  <<SubSeq(content, 1, k)>>
                   \o ReadLines(SubSeq(content, k + 1, Len(content)))

\* "".join(lines): what file.writelines(lines) writes.
RECURSIVE Concat(_)
Concat(lines) ==
    IF lines = <<>> THEN <<>> ELSE Head(lines) \o Concat(Tail(lines))

\* The body of an int() literal: after the optional sign.
IntBody(s) ==
    LET t == Strip(s)
    IN  IF t # <<>> /\ t[1] \in {"+", "-"} THEN Tail(t) ELSE t

\* int(s) succeeds: optional whitespace around an optional sign and decimal
\* digits, single underscores allowed between digits.
IntOk(s) ==
    LET b == IntBody(s)
    IN  /\ b # <<>>
        /\ \A i \in 1..Len(b) : IsDigit(b[i]) \/ b[i] = "_"
        /\ b[1] # "_"
        /\ b[Len(b)] # "_"
        /\ \A i \in 1..(Len(b) - 1) : ~(b[i] = "_" /\ b[i + 1] = "_")

RECURSIVE DigitsVal(_)
DigitsVal(b) ==
    IF b = <<>> THEN 0
    ELSE IF b[Len(b)] = "_" THEN DigitsVal(SubSeq(b, 1, Len(b) - 1))
    ELSE 10 * DigitsVal(SubSeq(b, 1, Len(b) - 1)) + DigitVal(b[Len(b)])

\* int(s), where IntOk(s).
IntVal(s) ==
    LET t == Strip(s)
    IN  IF t[1] = "-" THEN 0 - DigitsVal(IntBody(s)) ELSE DigitsVal(IntBody(s))

\* "%02d": a number below 100 as two decimal digits.
Fmt2(n) == <<DigitChars[(n \div 10) + 1], DigitChars[(n % 10) + 1]>>

\* now.strftime("%H:%M")
StrfHM(now) == Fmt2(now.hour) \o <<COLON>> \o Fmt2(now.minute)


\* ------------------------------------------------- schedule lines (worker)

\* Whether the worker's try block (split, unpack, map(int, ...)) raises on a
\* stripped, non-empty line.
LineParses(line) ==
    LET parts == Split(line, SEMI)
    IN  /\ Len(parts) = 3
        /\ LET tp == Split(parts[2], COLON)
           IN  Len(tp) = 2 /\ IntOk(tp[1]) /\ IntOk(tp[2])

SchedTimeStr(line) == Split(line, SEMI)[2]

\* sched_total_minutes = sched_hour * 60 + sched_min
SchedTotalMinutes(line) ==
    LET tp == Split(SchedTimeStr(line), COLON)
    IN  IntVal(tp[1]) * 60 + IntVal(tp[2])

\* current_minutes = now.hour * 60 + now.minute
CurrentMinutes(now) == now.hour * 60 + now.minute

\* if sched_time_str == current_time_str
TimeMatchesStr(line, now) == SchedTimeStr(line) = StrfHM(now)

\* The branch of the loop body one raw line takes.
Classify(raw, now) ==
    LET line == Strip(raw)
    IN  IF line = <<>> THEN "blank"
        ELSE IF ~LineParses(line) THEN "error"
        ELSE IF TimeMatchesStr(line, now) THEN "fire"
        ELSE IF SchedTotalMinutes(line) < CurrentMinutes(now) THEN "past"
        ELSE "keep"

\* A loop that appends in the "already passed" branch only.
AppendsInPastBranchOnly(kind) == kind = "past"

\* A loop that appends the lines it cannot parse, too.
AppendsErrorsToo(kind) == kind \in {"past", "keep", "error"}

\* The branches that run remaining_schedules.append(line): the else branch,
\* and the "already passed" branch, which appends too.
AppendsToRemaining(kind) == kind \in {"past", "keep"}

\* remaining_schedules after the for loop.
RECURSIVE RemainingOf(_, _)
RemainingOf(lines, now) ==
    IF lines = <<>> THEN <<>>
    ELSE (IF AppendsToRemaining(Classify(Head(lines), now))
          THEN <<Strip(Head(lines))>> ELSE <<>>)
         \o RemainingOf(Tail(lines), now)

\* The perform_backup calls of the for loop, in order; a call fails when its
\* source path is in `bad` (tarfile raises, perform_backup logs the error).
RECURSIVE CallsOf(_, _, _)
CallsOf(lines, now, bad) ==
    IF lines = <<>> THEN <<>>
    ELSE (IF Classify(Head(lines), now) = "fire"
          THEN LET line == Strip(Head(lines))
                   parts == Split(line, SEMI)
               IN  << [line |-> line, path |-> parts[1], name |-> parts[3],
                       ok |-> parts[1] \notin bad] >>
          ELSE <<>>)
         \o CallsOf(Tail(lines), now, bad)

\* The source paths the loop calls perform_backup with.
FiredPaths(lines, now) ==
    {CallsOf(lines, now, {})[i].path : i \in 1..Len(CallsOf(lines, now, {}))}

\* The lines the loop logs "Error parsing schedule line" for.
RECURSIVE ParseErrorsOf(_, _)
ParseErrorsOf(lines, now) ==
    IF lines = <<>> THEN <<>>
    ELSE (IF Classify(Head(lines), now) = "error"
          THEN <<Strip(Head(lines))>> ELSE <<>>)
         \o ParseErrorsOf(Tail(lines), now)

\* for s in remaining_schedules: f.write(f"{s}\n")
RECURSIVE RewriteData(_)
RewriteData(rem) ==
    IF rem = <<>> THEN <<>> ELSE Head(rem) \o <<NL>> \o RewriteData(Tail(rem))

\* if len(remaining_schedules) != len(schedules)
NeedsRewrite(rem, lines) == Len(rem) # Len(lines)

\* The branches that call log_message: perform_backup logs its outcome, the
\* except branch logs the line.
LogsAt(kind) == kind \in {"fire", "error"}

\* The position of the first line whose branch calls log_message, or 0.
FirstLogging(lines, now) ==
    LET at == {i \in 1..Len(lines) : LogsAt(Classify(lines[i], now))}
    IN  IF at = {} THEN 0 ELSE SetMin(at)

\* log_message raises OSError when the log cannot be written.  No handler
\* on its way catches it for good: perform_backup's except, the loop's
\* except and the outer except each call log_message again, and the last of
\* these calls is outside every try.  The for loop ends at that line.
LoopCrashes(lines, now, ok) == ~ok /\ FirstLogging(lines, now) # 0

\* The lines the for loop gets through.
LinesHandled(lines, now, ok) ==
    IF LoopCrashes(lines, now, ok)
    THEN SubSeq(lines, 1, FirstLogging(lines, now))
    ELSE lines

\* The lines a tick leaves out of remaining_schedules, each with the branch
\* it took; blank lines aside.
RetiredOf(lines, now) ==
    { [line |-> Strip(lines[i]), why |-> Classify(lines[i], now)] :
        i \in {j \in 1..Len(lines) :
                  /\ Classify(lines[j], now) # "blank"
                  /\ ~AppendsToRemaining(Classify(lines[j], now))} }

\* ------------------------------------------------ the file, as the OS has it

\* The text holds the schedule line (as a line, stripped).
HoldsLine(data, line) ==
    \E i \in 1..Len(ReadLines(data)) : Strip(ReadLines(data)[i]) = line

\* A buffered write through a descriptor opened with "w", flushed at close:
\* the data lands at offset 0 and replaces what is there, keeping any bytes
\* beyond it that another process wrote after the truncation.
WriteAtStart(old, data) ==
    data \o (IF Len(old) > Len(data) THEN SubSeq(old, Len(data) + 1, Len(old))
             ELSE <<>>)

\* -------------------------------------------------- create / list / delete

\* A create_schedule without the range test on hour and minute.
CreateErrorNoRange(s) ==
    LET parts == Split(s, SEMI)
    IN  IF Len(parts) # 3 \/ parts[1] = <<>> \/ parts[2] = <<>> \/ parts[3] = <<>>
        THEN "malformed"
        ELSE LET tp == Split(parts[2], COLON)
             IN  IF Len(tp) # 2 THEN "malformed"
                 ELSE IF ~IntOk(tp[1]) \/ ~IntOk(tp[2]) THEN "invalid_literal"
                 ELSE "none"

\* What create_schedule raises before it opens the file: "none", "malformed"
\* (its own ValueError) or "invalid_literal" (int()'s ValueError).
CreateError(s) ==
    LET parts == Split(s, SEMI)
    IN  IF Len(parts) # 3 \/ parts[1] = <<>> \/ parts[2] = <<>> \/ parts[3] = <<>>
        THEN "malformed"
        ELSE LET tp == Split(parts[2], COLON)
             IN  IF Len(tp) # 2 THEN "malformed"
                 ELSE IF ~IntOk(tp[1]) \/ ~IntOk(tp[2]) THEN "invalid_literal"
                 ELSE IF ~(/\ 0 <= IntVal(tp[1]) /\ IntVal(tp[1]) <= 23
                           /\ 0 <= IntVal(tp[2]) /\ IntVal(tp[2]) <= 59)
                 THEN "malformed"
                 ELSE "none"

\* f.write(f"{schedule_str}\n") through a descriptor opened with "a".
AppendData(old, s) == old \o s \o <<NL>>

\* A list that counts from one.
ListOutputFromOne(data) ==
    LET lines == ReadLines(data)
    IN  [i \in 1..Len(lines) |-> <<i, Strip(lines[i])>>]

\* What list_schedules prints: (i, schedule.strip()) per line.
ListOutput(data) ==
    LET lines == ReadLines(data)
    IN  [i \in 1..Len(lines) |-> <<i - 1, Strip(lines[i])>>]

\* if 0 <= idx < len(schedules)
IndexInRange(idx, lines) == 0 <= idx /\ idx < Len(lines)

\* A pop that is off by one: schedules.pop(idx + 1), or the last line.
PopAfter(lines, idx) ==
    IF idx + 2 <= Len(lines)
    THEN SubSeq(lines, 1, idx + 1) \o SubSeq(lines, idx + 3, Len(lines))
    ELSE SubSeq(lines, 1, Len(lines) - 1)

\* schedules.pop(idx)
PopAt(lines, idx) ==
    SubSeq(lines, 1, idx) \o SubSeq(lines, idx + 2, Len(lines))


\* ------------------------------------------------------------------ state

VARIABLES
    fileExists,   \* os.path.exists(SCHEDULES_FILE)
    content,      \* the characters of backup_schedules.txt
    clock,        \* the wall clock: an index into ClockTimes
    wpc,          \* worker: "sleep" | "loop" | "update" | "write" | "done"
    schedules,    \* worker: schedules = f.readlines()
    now,          \* worker: now = datetime.datetime.now()
    remaining,    \* worker: remaining_schedules
    calls,        \* worker: the perform_backup calls of the current tick
    parseErrors,  \* worker: the lines logged as parse errors this tick
    archived,     \* how often perform_backup ran, per schedule line
    appended,     \* how often create appended each schedule line
    mpc,          \* manager: "idle" | "create_write" | "delete_check"
                  \*          | "delete_write" | "done"
    cmd,          \* manager: sys.argv[1] of the running command
    arg,          \* manager: sys.argv[2] of the running command
    mschedules,   \* manager: delete_schedule's schedules
    mremoved,     \* manager: delete_schedule's removed = schedules.pop(idx)
    mreport,      \* manager: what the running command logged
    listing,      \* manager: what list_schedules printed
    procs,        \* the process table: the pids whose command line names
                  \* backup_service.py
    pending,      \* the pids a SIGTERM was sent to and has not reached yet
    launched,     \* how many workers Popen has started (the last pid given)
    cpc,          \* per start/stop process: "idle" | "start_decide"
                  \*   | "stop_decide" | "stop_kill" | "done"
    found,        \* per start/stop process: the pids of result.stdout's lines
    kpos,         \* per start/stop process: the line the kill loop is at
    sent,         \* per start/stop process: the pids os.kill succeeded for
    creport,      \* per start/stop process: what the command logged
    logOk,        \* whether the worker's log file can be written
    wold,         \* history: the file's content when the worker's
                  \* open(..., "w") emptied it, until the worker's write
    mold,         \* history: the same for delete_schedule's open(..., "w")
    removed,      \* history: the lines a finished rewrite of the worker
                  \* or of delete took out of the file, with the reason
    racing        \* history: the worker and a delete have both read the
                  \* file, and neither had opened it for writing then

fileVars == <<fileExists, content>>
workerVars == <<wpc, schedules, now, remaining, calls, parseErrors, archived>>
managerVars == <<mpc, cmd, arg, mschedules, mremoved, mreport, listing, appended>>
histVars == <<wold, mold, removed, racing>>
supVars == <<procs, pending, launched, cpc, found, kpos, sent, creport>>
storeVars == <<fileVars, clock, workerVars, managerVars, histVars, logOk>>

\* ------------------------------------------------------------ bounds, inputs

\* The most schedule lines that create commands append in one behaviour:
\* of the operations run alone, and of the interleaved operations.
MaxAppended == 2

MaxConcAppended == 2

\* The command-line processes that may run at once, and the most workers
\* that start commands launch in one behaviour.
NumClis == 2

MaxLaunched == 3

Clis == 1..NumClis

\* The wall-clock times a behaviour passes through, in order, day after day.
ClockTimes ==
    << [hour |-> 8, minute |-> 0], [hour |-> 9, minute |-> 5],
       [hour |-> 9, minute |-> 6] >>

\* path;HH:MM;name
Rec(path, time, name) == path \o <<SEMI>> \o time \o <<SEMI>> \o name

T0905 == <<"0", "9", COLON, "0", "5">>
T2359 == <<"2", "3", COLON, "5", "9">>

RecA == Rec(<<"a">>, T0905, <<"n">>)
RecB == Rec(<<"b">>, T2359, <<"m">>)

\* Inputs create accepts: zero-padded times, a time without padding, a name
\* with trailing whitespace, an input that ends in a line break.
ValidInputs ==
    { RecA, RecB,
      Rec(<<"a">>, <<"9", COLON, "0", "5">>, <<"n">>),
      Rec(<<"a">>, T0905, <<"n", " ">>),
      Rec(<<"b">>, T2359, <<"m", NL>>) }

\* Inputs create refuses, one or two per kind of defect.
MalformedInputs ==
    { <<"a">> \o <<SEMI>> \o T0905,
      Rec(<<"a">>, T0905, <<"n", SEMI, "x">>),
      Rec(<<>>, T0905, <<"n">>),
      Rec(<<"a">>, <<>>, <<"n">>),
      Rec(<<"a">>, T0905, <<>>),
      Rec(<<"a">>, <<"0", "9", "0", "5">>, <<"n">>),
      Rec(<<"a">>, T0905 \o <<COLON, "0", "0">>, <<"n">>),
      Rec(<<"a">>, <<"x", COLON, "0", "5">>, <<"n">>),
      Rec(<<"a">>, <<"0", "9", COLON>>, <<"n">>),
      Rec(<<"a">>, <<"2", "4", COLON, "0", "0">>, <<"n">>),
      Rec(<<"a">>, <<"0", "9", COLON, "6", "0">>, <<"n">>),
      Rec(<<"a">>, <<"-", "1", COLON, "0", "5">>, <<"n">>) }

SeqInputs == ValidInputs \cup MalformedInputs

\* The arguments of delete: positions, a negative one, one that is no number.
SeqIndexes ==
    { <<"0">>, <<"1">>, <<"2">>, <<"7">>, <<"-", "1">>, <<"x">>, <<>> }

\* A record with a longer line.
RecL == Rec(<<"l", "l">>, T2359, <<"m", "m">>)

\* The inputs of the interleaved specification.
ConcInputs == {RecA, RecB, RecL}

ConcIndexes == { <<"0">>, <<"1">> }

\* The most lines of the schedule file the worker starts with.
MaxStoreLines == 3

\* The lines of such a file, without their line break: records whose time is
\* on the clock, zero-padded and not; a record late in the day; a record
\* with a space at its end; a blank line; a line of one field; a line whose
\* time has no colon.
TickLines ==
    { RecA, RecB,
      Rec(<<"a">>, <<"9", COLON, "0", "5">>, <<"n">>),
      Rec(<<"a">>, T0905, <<"n", " ">>),
      <<" ">>,
      <<"x">>,
      Rec(<<"a">>, <<"0", "9", "0", "5">>, <<"n">>) }

\* The most lines of the schedule file where every minute has its tick.
MaxMinuteLines == 2

\* The sequences of at most n elements of S.
SeqsUpTo(S, n) == UNION {[1..k -> S] : k \in 0..n}

\* The contents of such a file of at most n lines: each line ends in a line
\* break.
StoresUpTo(n) ==
    { Concat([i \in 1..Len(ls) |-> ls[i] \o <<NL>>]) :
        ls \in SeqsUpTo(TickLines, n) }

TickStores == StoresUpTo(MaxStoreLines)

MinuteStores == StoresUpTo(MaxMinuteLines)

\* --------------------------------------------------------------- bags

BagCount(b, e) == IF e \in DOMAIN b THEN b[e] ELSE 0

BagAdd(b, e) ==
    [x \in DOMAIN b \cup {e} |-> BagCount(b, x) + (IF x = e THEN 1 ELSE 0)]

RECURSIVE BagAddAll(_, _)
BagAddAll(b, es) ==
    IF es = <<>> THEN b ELSE BagAddAll(BagAdd(b, Head(es)), Tail(es))

RECURSIVE BagTotal(_)
BagTotal(b) ==
    IF DOMAIN b = {} THEN 0
    ELSE LET e == CHOOSE x \in DOMAIN b : TRUE
         IN  b[e] + BagTotal([x \in DOMAIN b \ {e} |-> b[x]])

EmptyBag == [x \in {} |-> 0]

\* The non-blank stripped lines a text holds: its schedule lines.
RECURSIVE StrippedLines(_)
StrippedLines(lines) ==
    IF lines = <<>> THEN <<>>
    ELSE (IF Strip(Head(lines)) = <<>> THEN <<>> ELSE <<Strip(Head(lines))>>)
         \o StrippedLines(Tail(lines))

CallLines(cs) == [i \in 1..Len(cs) |-> cs[i].line]

NoTime == [hour |-> 0, minute |-> 0]

\* ------------------------------------------------------------------- Init

\* No tick and no command has begun; no worker runs.
InitLocals ==
    /\ wpc = "sleep"
    /\ schedules = <<>>
    /\ now = NoTime
    /\ remaining = <<>>
    /\ calls = <<>>
    /\ parseErrors = <<>>
    /\ archived = EmptyBag
    /\ appended = EmptyBag
    /\ mpc = "idle"
    /\ cmd = "none"
    /\ arg = <<>>
    /\ mschedules = <<>>
    /\ mremoved = <<>>
    /\ mreport = "none"
    /\ listing = <<>>
    /\ procs = {}
    /\ pending = {}
    /\ launched = 0
    /\ cpc = [c \in Clis |-> "idle"]
    /\ found = [c \in Clis |-> <<>>]
    /\ kpos = [c \in Clis |-> 1]
    /\ sent = [c \in Clis |-> {}]
    /\ creport = [c \in Clis |-> "none"]
    /\ logOk = TRUE
    /\ wold = <<>>
    /\ mold = <<>>
    /\ removed = {}
    /\ racing = FALSE

\* A fresh directory: no schedule file.
Init ==
    /\ fileExists = FALSE
    /\ content = <<>>
    /\ clock = 1
    /\ InitLocals

\* ----------------------------------------------------------------- clock

\* Time passes: the clock reaches its next time (after the last, the first of
\* the next day).
ClockAdvance ==
    /\ clock' = (clock % Len(ClockTimes)) + 1
    /\ UNCHANGED <<fileVars, workerVars, managerVars, supVars, histVars, logOk>>

\* ------------------------------------------------------------------- log

\* backup_service.py 25-28: os.makedirs or open(LOG_FILE, "a") begins to
\* raise OSError (the directory or the file cannot be written any more).
LogBreaks ==
    /\ logOk
    /\ logOk' = FALSE
    /\ UNCHANGED <<fileVars, clock, workerVars, managerVars, supVars, histVars>>

\* The log can be written again.
LogMends ==
    /\ ~logOk
    /\ logOk' = TRUE
    /\ UNCHANGED <<fileVars, clock, workerVars, managerVars, supVars, histVars>>

\* ---------------------------------------------------------------- worker

\* backup_service.py 57-64: the sleep ends; the tick checks that the file
\* exists, reads it and takes the time.
WorkerPoll ==
    /\ wpc = "sleep"
    /\ IF fileExists
       THEN /\ schedules' = ReadLines(content)
            /\ now' = ClockTimes[clock]
            /\ wpc' = "loop"
       ELSE /\ wpc' = "done"
            /\ UNCHANGED <<schedules, now>>
    /\ racing' = (fileExists /\ mpc = "delete_check")
    /\ UNCHANGED <<remaining, calls, parseErrors, archived>>
    /\ UNCHANGED <<fileVars, clock, managerVars, supVars, logOk>>
    /\ UNCHANGED <<wold, mold, removed>>

\* backup_service.py 66-101, 109-110: the for loop over the lines read, with
\* its perform_backup calls; the archives of the paths in `bad` fail.  When
\* log_message raises, the exception leaves the loop, the while and the
\* process.
WorkerLoop ==
    /\ wpc = "loop"
    /\ LET handled == LinesHandled(schedules, now, logOk)
       IN  /\ \E bad \in SUBSET FiredPaths(handled, now) :
                 /\ calls' = CallsOf(handled, now, bad)
                 /\ archived' = BagAddAll(archived, CallLines(CallsOf(handled, now, bad)))
           /\ remaining' = RemainingOf(handled, now)
           /\ parseErrors' = IF logOk THEN ParseErrorsOf(handled, now) ELSE <<>>
    /\ wpc' = IF LoopCrashes(schedules, now, logOk) THEN "crashed" ELSE "update"
    /\ UNCHANGED <<schedules, now>>
    /\ UNCHANGED <<fileVars, clock, managerVars, supVars, histVars, logOk>>

\* backup_service.py 104-105: the length test, and open(SCHEDULES_FILE, "w"),
\* which empties the file.
WorkerUpdate ==
    /\ wpc = "update"
    /\ IF NeedsRewrite(remaining, schedules)
       THEN /\ fileExists' = TRUE
            /\ content' = <<>>
            /\ wold' = content
            /\ wpc' = "write"
       ELSE /\ wpc' = "done"
            /\ UNCHANGED <<fileVars, wold>>
    /\ UNCHANGED <<schedules, now, remaining, calls, parseErrors, archived>>
    /\ UNCHANGED <<clock, managerVars, supVars, logOk>>
    /\ UNCHANGED <<mold, removed, racing>>

\* backup_service.py 106-107: the writes, flushed when the file is closed.
WorkerWrite ==
    /\ wpc = "write"
    /\ content' = WriteAtStart(content, RewriteData(remaining))
    /\ wpc' = "done"
    /\ wold' = <<>>
    /\ removed' = removed \cup
           {r \in RetiredOf(schedules, now) : ~HoldsLine(content', r.line)}
    /\ UNCHANGED <<fileExists, schedules, now, remaining, calls, parseErrors, archived>>
    /\ UNCHANGED <<clock, managerVars, supVars, logOk>>
    /\ UNCHANGED <<mold, racing>>

\* backup_service.py 112: time.sleep(45); the tick's locals are dead.
WorkerSleep ==
    /\ wpc = "done"
    /\ wpc' = "sleep"
    /\ schedules' = <<>>
    /\ now' = NoTime
    /\ remaining' = <<>>
    /\ calls' = <<>>
    /\ parseErrors' = <<>>
    /\ racing' = FALSE
    /\ UNCHANGED archived
    /\ UNCHANGED <<fileVars, clock, managerVars, supVars, logOk>>
    /\ UNCHANGED <<wold, mold, removed>>


\* --------------------------------------------------------------- manager

\* backup_manager.py 39-52: create_schedule validates its argument and, when
\* it is valid, opens the file for appending (which creates it).
CreateCheck(s) ==
    /\ mpc = "idle"
    /\ cmd' = "create"
    /\ arg' = s
    /\ IF CreateError(s) # "none"
       THEN /\ mreport' = CreateError(s)
            /\ mpc' = "done"
            /\ UNCHANGED fileVars
       ELSE /\ fileExists' = TRUE
            /\ mpc' = "create_write"
            /\ UNCHANGED <<content, mreport>>
    /\ UNCHANGED <<mschedules, mremoved, listing, appended>>
    /\ UNCHANGED <<clock, workerVars, supVars, histVars, logOk>>

\* backup_manager.py 53-54: the write, flushed when the file is closed.
CreateWrite ==
    /\ mpc = "create_write"
    /\ content' = AppendData(content, arg)
    /\ appended' = BagAddAll(appended, StrippedLines(ReadLines(arg \o <<NL>>)))
    /\ mreport' = "added"
    /\ mpc' = "done"
    /\ UNCHANGED <<fileExists, cmd, arg, mschedules, mremoved, listing>>
    /\ UNCHANGED <<clock, workerVars, supVars, histVars, logOk>>

\* backup_manager.py 63-74: list_schedules.
ListSchedules ==
    /\ mpc = "idle"
    /\ cmd' = "list"
    /\ IF fileExists
       THEN /\ listing' = ListOutput(content)
            /\ mreport' = "listed"
       ELSE /\ listing' = <<>>
            /\ mreport' = "not_found"
    /\ mpc' = "done"
    /\ UNCHANGED <<arg, mschedules, mremoved, appended>>
    /\ UNCHANGED <<fileVars, clock, workerVars, supVars, histVars, logOk>>

\* backup_manager.py 84-89: delete_schedule checks that the file exists and
\* reads it.
DeleteRead(ix) ==
    /\ mpc = "idle"
    /\ cmd' = "delete"
    /\ arg' = ix
    /\ IF fileExists
       THEN /\ mschedules' = ReadLines(content)
            /\ mpc' = "delete_check"
            /\ UNCHANGED mreport
       ELSE /\ mreport' = "not_found"
            /\ mpc' = "done"
            /\ UNCHANGED mschedules
    /\ racing' = (fileExists /\ wpc \in {"loop", "update"})
    /\ UNCHANGED <<mremoved, listing, appended>>
    /\ UNCHANGED <<fileVars, clock, workerVars, supVars, logOk>>
    /\ UNCHANGED <<wold, mold, removed>>

\* backup_manager.py 91-94, 97-98: int(index), the range test, the pop, and
\* open(SCHEDULES_FILE, "w"), which empties the file.
DeleteCheck ==
    /\ mpc = "delete_check"
    /\ IF ~IntOk(arg)
       THEN /\ mreport' = "invalid_literal"
            /\ mpc' = "done"
            /\ UNCHANGED <<mschedules, mremoved, fileVars, mold>>
       ELSE IF IndexInRange(IntVal(arg), mschedules)
       THEN /\ mremoved' = mschedules[IntVal(arg) + 1]
            /\ mschedules' = PopAt(mschedules, IntVal(arg))
            /\ content' = <<>>
            /\ mold' = content
            /\ mpc' = "delete_write"
            /\ UNCHANGED <<mreport, fileExists>>
       ELSE /\ mreport' = "index_not_found"
            /\ mpc' = "done"
            /\ UNCHANGED <<mschedules, mremoved, fileVars, mold>>
    /\ UNCHANGED <<cmd, arg, listing, appended>>
    /\ UNCHANGED <<clock, workerVars, supVars, logOk>>
    /\ UNCHANGED <<wold, removed, racing>>

\* backup_manager.py 95-96: f.writelines(schedules), flushed at close.
DeleteWrite ==
    /\ mpc = "delete_write"
    /\ content' = WriteAtStart(content, Concat(mschedules))
    /\ mreport' = "deleted"
    /\ mpc' = "done"
    /\ mold' = <<>>
    /\ removed' = removed \cup
           (IF HoldsLine(content', Strip(mremoved)) \/ Strip(mremoved) = <<>>
            THEN {}
            ELSE {[line |-> Strip(mremoved), why |-> "deleted"]})
    /\ UNCHANGED <<fileExists, cmd, arg, mschedules, mremoved, listing, appended>>
    /\ UNCHANGED <<clock, workerVars, supVars, logOk>>
    /\ UNCHANGED <<wold, racing>>

\* The command's process exits.
ManagerExit ==
    /\ mpc = "done"
    /\ mpc' = "idle"
    /\ cmd' = "none"
    /\ arg' = <<>>
    /\ mschedules' = <<>>
    /\ mremoved' = <<>>
    /\ mreport' = "none"
    /\ listing' = <<>>
    /\ racing' = FALSE
    /\ UNCHANGED appended
    /\ UNCHANGED <<fileVars, clock, workerVars, supVars, logOk>>
    /\ UNCHANGED <<wold, mold, removed>>

\* ------------------------------------------------------------ supervisor

\* The pids of the lines "ps -A -f | grep backup_service.py | grep -v grep"
\* prints: the running workers, in pid order.
RECURSIVE SortedSeq(_)
SortedSeq(S) ==
    IF S = {} THEN <<>> ELSE <<SetMin(S)>> \o SortedSeq(S \ {SetMin(S)})

PsOutput(table) == SortedSeq(table)

\* if result.stdout.strip()
AnyFound(pids) == pids # <<>>

\* backup_manager.py 109-112: start_service queries the process table.
StartQuery(c) ==
    /\ cpc[c] = "idle"
    /\ found' = [found EXCEPT ![c] = PsOutput(procs)]
    /\ cpc' = [cpc EXCEPT ![c] = "start_decide"]
    /\ UNCHANGED <<procs, pending, launched, kpos, sent, creport>>
    /\ UNCHANGED storeVars

\* backup_manager.py 113-122: "already running", or Popen, which starts a
\* worker or raises OSError.
StartLaunch(c) ==
    /\ cpc[c] = "start_decide"
    /\ IF AnyFound(found[c])
       THEN /\ creport' = [creport EXCEPT ![c] = "already_running"]
            /\ UNCHANGED <<procs, launched>>
       ELSE \/ /\ launched < MaxLaunched
               /\ launched' = launched + 1
               /\ procs' = procs \cup {launched + 1}
               /\ creport' = [creport EXCEPT ![c] = "started"]
            \/ /\ creport' = [creport EXCEPT ![c] = "failed_to_start"]
               /\ UNCHANGED <<procs, launched>>
    /\ cpc' = [cpc EXCEPT ![c] = "done"]
    /\ UNCHANGED <<pending, found, kpos, sent>>
    /\ UNCHANGED storeVars

\* backup_manager.py 131-134: stop_service queries the process table.
StopQuery(c) ==
    /\ cpc[c] = "idle"
    /\ found' = [found EXCEPT ![c] = PsOutput(procs)]
    /\ cpc' = [cpc EXCEPT ![c] = "stop_decide"]
    /\ UNCHANGED <<procs, pending, launched, kpos, sent, creport>>
    /\ UNCHANGED storeVars

\* backup_manager.py 135-136: no line found raises "can't stop".
StopDecide(c) ==
    /\ cpc[c] = "stop_decide"
    /\ IF AnyFound(found[c])
       THEN /\ cpc' = [cpc EXCEPT ![c] = "stop_kill"]
            /\ UNCHANGED creport
       ELSE /\ creport' = [creport EXCEPT ![c] = "cant_stop"]
            /\ cpc' = [cpc EXCEPT ![c] = "done"]
    /\ UNCHANGED <<procs, pending, launched, found, kpos, sent>>
    /\ UNCHANGED storeVars

\* A kill loop that sends signal 0, which tests for the process and ends
\* nothing.
StopKillProbesOnly(c) ==
    /\ cpc[c] = "stop_kill"
    /\ kpos[c] <= Len(found[c])
    /\ LET pid == found[c][kpos[c]]
       IN  IF pid \in procs
           THEN /\ sent' = [sent EXCEPT ![c] = @ \cup {pid}]
                /\ kpos' = [kpos EXCEPT ![c] = @ + 1]
                /\ UNCHANGED <<cpc, creport, pending>>
           ELSE /\ creport' = [creport EXCEPT ![c] = "os_error"]
                /\ cpc' = [cpc EXCEPT ![c] = "done"]
                /\ UNCHANGED <<pending, sent, kpos>>
    /\ UNCHANGED <<procs, launched, found>>
    /\ UNCHANGED storeVars

\* A kill loop that catches the error of a pid that is gone and goes on.
StopKillGoesOn(c) ==
    /\ cpc[c] = "stop_kill"
    /\ kpos[c] <= Len(found[c])
    /\ LET pid == found[c][kpos[c]]
       IN  IF pid \in procs
           THEN /\ pending' = pending \cup {pid}
                /\ sent' = [sent EXCEPT ![c] = @ \cup {pid}]
           ELSE UNCHANGED <<pending, sent>>
    /\ kpos' = [kpos EXCEPT ![c] = @ + 1]
    /\ UNCHANGED <<cpc, creport>>
    /\ UNCHANGED <<procs, launched, found>>
    /\ UNCHANGED storeVars

\* backup_manager.py 139-143, 146-147: one turn of the kill loop;
\* os.kill raises ProcessLookupError for a pid that is gone, which ends
\* the loop and the command.
StopKill(c) ==
    /\ cpc[c] = "stop_kill"
    /\ kpos[c] <= Len(found[c])
    /\ LET pid == found[c][kpos[c]]
       IN  IF pid \in procs
           THEN /\ pending' = pending \cup {pid}
                /\ sent' = [sent EXCEPT ![c] = @ \cup {pid}]
                /\ kpos' = [kpos EXCEPT ![c] = @ + 1]
                /\ UNCHANGED <<cpc, creport>>
           ELSE /\ creport' = [creport EXCEPT ![c] = "os_error"]
                /\ cpc' = [cpc EXCEPT ![c] = "done"]
                /\ UNCHANGED <<pending, sent, kpos>>
    /\ UNCHANGED <<procs, launched, found>>
    /\ UNCHANGED storeVars

\* backup_manager.py 145: the loop is over, "backup_service stopped".
StopFinish(c) ==
    /\ cpc[c] = "stop_kill"
    /\ kpos[c] > Len(found[c])
    /\ creport' = [creport EXCEPT ![c] = "stopped"]
    /\ cpc' = [cpc EXCEPT ![c] = "done"]
    /\ UNCHANGED <<procs, pending, launched, found, kpos, sent>>
    /\ UNCHANGED storeVars

\* The command's process exits.
CliExit(c) ==
    /\ cpc[c] = "done"
    /\ cpc' = [cpc EXCEPT ![c] = "idle"]
    /\ found' = [found EXCEPT ![c] = <<>>]
    /\ kpos' = [kpos EXCEPT ![c] = 1]
    /\ sent' = [sent EXCEPT ![c] = {}]
    /\ creport' = [creport EXCEPT ![c] = "none"]
    /\ UNCHANGED <<procs, pending, launched>>
    /\ UNCHANGED storeVars

\* A SIGTERM reaches its worker, which has no handler for it and ends.
Deliver(p) ==
    /\ p \in pending
    /\ pending' = pending \ {p}
    /\ procs' = procs \ {p}
    /\ UNCHANGED <<launched, cpc, found, kpos, sent, creport>>
    /\ UNCHANGED storeVars

\* ---------------------------------------------------------- specifications

vars == <<storeVars, supVars>>

\* The cap on the lines appended: an input create accepts is tried only
\* while fewer than `cap` lines were appended.
CanAppend(s, cap) == CreateError(s) = "none" => BagTotal(appended) < cap

\* The worker and one manager command at a time, their file operations
\* interleaved in every order.
Next ==
    \/ ClockAdvance
    \/ WorkerPoll
    \/ WorkerLoop
    \/ WorkerUpdate
    \/ WorkerWrite
    \/ WorkerSleep
    \/ \E s \in ConcInputs : CanAppend(s, MaxConcAppended) /\ CreateCheck(s)
    \/ ListSchedules
    \/ \E ix \in ConcIndexes : DeleteRead(ix)
    \/ CreateWrite
    \/ DeleteCheck
    \/ DeleteWrite
    \/ ManagerExit

Spec == Init /\ [][Next]_vars

\* Each operation run alone: a manager command runs from start to exit while
\* the worker sleeps, and a worker tick runs from poll to sleep while no
\* command is running.
NextSeq ==
    \/ ClockAdvance
    \/ mpc = "idle" /\ WorkerPoll
    \/ mpc = "idle" /\ WorkerLoop
    \/ mpc = "idle" /\ WorkerUpdate
    \/ mpc = "idle" /\ WorkerWrite
    \/ mpc = "idle" /\ WorkerSleep
    \/ wpc = "sleep" /\ \E s \in SeqInputs :
            CanAppend(s, MaxAppended) /\ CreateCheck(s)
    \/ wpc = "sleep" /\ ListSchedules
    \/ wpc = "sleep" /\ \E ix \in SeqIndexes : DeleteRead(ix)
    \/ wpc = "sleep" /\ CreateWrite
    \/ wpc = "sleep" /\ DeleteCheck
    \/ wpc = "sleep" /\ DeleteWrite
    \/ wpc = "sleep" /\ ManagerExit

SpecSeq == Init /\ [][NextSeq]_vars


\* The start and stop commands of several command-line processes, their
\* steps interleaved in every order, and the signals' delivery.
NextSup ==
    \/ \E c \in Clis : StartQuery(c)
    \/ \E c \in Clis : StartLaunch(c)
    \/ \E c \in Clis : StopQuery(c)
    \/ \E c \in Clis : StopDecide(c)
    \/ \E c \in Clis : StopKill(c)
    \/ \E c \in Clis : StopFinish(c)
    \/ \E c \in Clis : CliExit(c)
    \/ \E p \in pending : Deliver(p)

SpecSup == Init /\ [][NextSup]_vars

\* No other command-line process is running a command.
Alone(c) == \A d \in Clis \ {c} : cpc[d] = "idle"

\* The start and stop commands issued one after the other; a signal is
\* delivered at any time after it was sent.
NextSupSeq ==
    \/ \E c \in Clis : Alone(c) /\ StartQuery(c)
    \/ \E c \in Clis : Alone(c) /\ StartLaunch(c)
    \/ \E c \in Clis : Alone(c) /\ StopQuery(c)
    \/ \E c \in Clis : Alone(c) /\ StopDecide(c)
    \/ \E c \in Clis : Alone(c) /\ StopKill(c)
    \/ \E c \in Clis : Alone(c) /\ StopFinish(c)
    \/ \E c \in Clis : Alone(c) /\ CliExit(c)
    \/ \E p \in pending : Deliver(p)

SpecSupSeq == Init /\ [][NextSupSeq]_vars

\* The worker finds a schedule file, at any time of the clock.
InitTick ==
    /\ fileExists = TRUE
    /\ content \in TickStores
    /\ clock \in 1..Len(ClockTimes)
    /\ InitLocals

\* The worker's ticks alone: no command runs.
NextTick ==
    \/ ClockAdvance
    \/ WorkerPoll
    \/ WorkerLoop
    \/ WorkerUpdate
    \/ WorkerWrite
    \/ WorkerSleep

SpecTick == InitTick /\ [][NextTick]_vars

InitMinute ==
    /\ fileExists = TRUE
    /\ content \in MinuteStores
    /\ clock \in 1..Len(ClockTimes)
    /\ InitLocals

\* The worker's ticks alone, at least one in every minute of the clock: the
\* clock moves on when a tick that began in this minute has ended.
TickedThisMinute == wpc = "done" /\ now = ClockTimes[clock]

NextMinute ==
    \/ TickedThisMinute /\ ClockAdvance
    \/ WorkerPoll
    \/ WorkerLoop
    \/ WorkerUpdate
    \/ WorkerWrite
    \/ WorkerSleep

\* A step of the worker: it leaves the place it is at.  In each of these
\* places one of WorkerPoll, WorkerLoop, WorkerUpdate, WorkerWrite and
\* WorkerSleep can be taken.
WorkerRuns ==
    /\ wpc \in {"sleep", "loop", "update", "write", "done"}
    /\ wpc' \in {"sleep", "loop", "update", "write", "done", "crashed"}
    /\ wpc' # wpc

\* The worker process runs on (no step of a tick waits for ever, the sleep
\* ends), and time passes: the clock moves on from every minute.
SpecMinute ==
    /\ InitMinute
    /\ [][NextMinute]_vars
    /\ WF_wpc(WorkerRuns)
    /\ SF_clock(TickedThisMinute /\ ClockAdvance)

\* The worker's ticks and create commands, each run alone, with a log that
\* breaks and mends while no command runs; commands are given while the
\* log can be written.
NextFail ==
    \/ ClockAdvance
    \/ mpc = "idle" /\ LogBreaks
    \/ LogMends
    \/ mpc = "idle" /\ WorkerPoll
    \/ mpc = "idle" /\ WorkerLoop
    \/ mpc = "idle" /\ WorkerUpdate
    \/ mpc = "idle" /\ WorkerWrite
    \/ mpc = "idle" /\ WorkerSleep
    \/ wpc \in {"sleep", "crashed"} /\ logOk /\ \E s \in ConcInputs :
            CanAppend(s, MaxConcAppended) /\ CreateCheck(s)
    \/ wpc \in {"sleep", "crashed"} /\ CreateWrite
    \/ wpc \in {"sleep", "crashed"} /\ ManagerExit

SpecFail == Init /\ [][NextFail]_vars


\* ------------------------------------------------------- what claims speak of

\* The lines of a stripped, parsed schedule line.
SchedHour(line) == IntVal(Split(SchedTimeStr(line), COLON)[1])

SchedMinute(line) == IntVal(Split(SchedTimeStr(line), COLON)[2])

\* A raw line of the file that holds a schedule record.
IsRecord(raw) == Strip(raw) # <<>> /\ LineParses(Strip(raw))

\* The record's scheduledTime is the (hour, minute) `t`.
ScheduledAt(raw, t) ==
    /\ IsRecord(raw)
    /\ SchedHour(Strip(raw)) = t.hour
    /\ SchedMinute(Strip(raw)) = t.minute

\* The record's schedMinutes are below nowMinutes.
ScheduledBefore(raw, t) ==
    /\ IsRecord(raw)
    /\ SchedHour(Strip(raw)) * 60 + SchedMinute(Strip(raw)) < t.hour * 60 + t.minute

\* The record's time is after `t`.
ScheduledAfter(raw, t) ==
    /\ IsRecord(raw)
    /\ SchedHour(Strip(raw)) * 60 + SchedMinute(Strip(raw)) > t.hour * 60 + t.minute

\* How many of the tick's perform_backup calls were made for the line.
CallsFor(line) == Cardinality({i \in 1..Len(calls) : calls[i].line = line})

\* How many of the lines the tick read hold the line.
ReadCount(line) ==
    Cardinality({i \in 1..Len(schedules) : Strip(schedules[i]) = line})

\* The schedule line is in the file.
InStore(line) ==
    \E i \in 1..Len(ReadLines(content)) : Strip(ReadLines(content)[i]) = line

\* A worker tick that read the file has run to its end, alone.
TickDone == wpc = "done" /\ schedules # <<>>

\* ----------------------------------------------------------------- claims

\* C1: a tick fires every record whose scheduledTime equals the current
\* (hour, minute): it calls archive(sourcePath, archiveName) once for the
\* record, and the record is not in the store after the tick.
C1_ExactMatchFiring ==
    TickDone =>
        \A i \in 1..Len(schedules) :
            ScheduledAt(schedules[i], now) =>
                LET line == Strip(schedules[i])
                    parts == Split(line, SEMI)
                IN  /\ CallsFor(line) = ReadCount(line)
                    /\ \A j \in 1..Len(calls) :
                          calls[j].line = line =>
                              calls[j].path = parts[1] /\ calls[j].name = parts[3]
                    /\ ~InStore(line)

\* C1, for the records whose time is written as the clock's "%H:%M" text:
\* these are fired once and retired, whether the archive succeeded or not.
C1_TextMatchFiring ==
    TickDone =>
        \A i \in 1..Len(schedules) :
            (IsRecord(schedules[i]) /\ SchedTimeStr(Strip(schedules[i])) = StrfHM(now)) =>
                /\ CallsFor(Strip(schedules[i])) = ReadCount(Strip(schedules[i]))
                /\ ~InStore(Strip(schedules[i]))

C1_TextMatchFiring_Witness ==
    /\ TickDone
    /\ Len(schedules) >= 2
    /\ \E j \in 1..Len(calls) : ~calls[j].ok /\ ~InStore(calls[j].line)

\* C2: a tick retires every record whose schedMinutes are below nowMinutes
\* without calling archive for it: the record is not in the store after
\* the tick.
C2_PastDueDrop ==
    TickDone =>
        \A i \in 1..Len(schedules) :
            ScheduledBefore(schedules[i], now) =>
                /\ CallsFor(Strip(schedules[i])) = 0
                /\ ~InStore(Strip(schedules[i]))

\* C3: a tick on a store whose lines are all records with a time after the
\* current time calls no archive and leaves the file's content as it was;
\* so does every further such tick.
C3_FutureRetention ==
    (wpc = "done" /\ \A i \in 1..Len(schedules) : ScheduledAfter(schedules[i], now))
        => calls = <<>> /\ content = Concat(schedules)

C3_FutureRetention_Witness ==
    /\ TickDone
    /\ \A i \in 1..Len(schedules) : ScheduledAfter(schedules[i], now)
    /\ Len(schedules) >= 2
    /\ \E i \in 1..Len(schedules) : Strip(schedules[i]) \o <<NL>> # schedules[i]
    /\ content = Concat(schedules)


\* How often the character is in the text.
CountChar(s, c) == Cardinality({i \in 1..Len(s) : s[i] = c})

\* The text is "path;time;name" with three fields, none of them empty.
HasThreeFields(s) ==
    /\ CountChar(s, SEMI) = 2
    /\ s[1] # SEMI
    /\ s[Len(s)] # SEMI
    /\ \A i \in 1..(Len(s) - 1) : ~(s[i] = SEMI /\ s[i + 1] = SEMI)

\* The second of three fields.
TimeField(s) ==
    LET at == {i \in 1..Len(s) : s[i] = SEMI}
    IN  SubSeq(s, SetMin(at) + 1, SetMax(at) - 1)

\* The time field is hour:minute, both numbers.
HasNumericTime(s) ==
    LET t == TimeField(s)
        at == {i \in 1..Len(t) : t[i] = COLON}
    IN  /\ Cardinality(at) = 1
        /\ IntOk(SubSeq(t, 1, SetMin(at) - 1))
        /\ IntOk(SubSeq(t, SetMin(at) + 1, Len(t)))

\* Hour in 0..23 and minute in 0..59.
HasTimeInRange(s) ==
    LET t == TimeField(s)
        k == SetMin({i \in 1..Len(t) : t[i] = COLON})
    IN  /\ IntVal(SubSeq(t, 1, k - 1)) \in 0..23
        /\ IntVal(SubSeq(t, k + 1, Len(t))) \in 0..59

\* A valid input of create, and a malformed one.
IsValidInput(s) ==
    s # <<>> /\ HasThreeFields(s) /\ HasNumericTime(s) /\ HasTimeInRange(s)

IsMalformedInput(s) == ~IsValidInput(s)

\* C4: create, run alone with a valid input on a store of N lines, leaves
\* N+1 lines: the old ones unchanged, then the input; and list shows the
\* input unchanged at index N.
C4_CreateAppends ==
    [][ (mpc = "create_write" /\ mpc' = "done" /\ IsValidInput(arg)) =>
            LET old == ReadLines(content)
                new == ReadLines(content')
            IN  /\ Len(new) = Len(old) + 1
                /\ SubSeq(new, 1, Len(old)) = old
                /\ new[Len(new)] = arg \o <<NL>>
                /\ ListOutput(content')[Len(old) + 1] = <<Len(old), arg>>
      ]_vars

\* C4, for the inputs without a line break: the file grows by the input and
\* a line break, and list shows the input stripped of surrounding whitespace.
C4_CreateAppendsStripped ==
    [][ (mpc = "create_write" /\ mpc' = "done" /\ IsValidInput(arg)
         /\ CountChar(arg, NL) = 0) =>
            LET old == ReadLines(content)
                new == ReadLines(content')
            IN  /\ Len(new) = Len(old) + 1
                /\ SubSeq(new, 1, Len(old)) = old
                /\ new[Len(new)] = arg \o <<NL>>
                /\ ListOutput(content')[Len(old) + 1] = <<Len(old), Strip(arg)>>
      ]_vars

\* C5: create with a malformed input reports a validation error and leaves
\* the store as it was: the same content, and no file where there was none.
C5_CreateRejects ==
    [][ (mpc = "idle" /\ cmd' = "create" /\ IsMalformedInput(arg')) =>
            /\ mpc' = "done"
            /\ mreport' \in {"malformed", "invalid_literal"}
            /\ content' = content
            /\ fileExists' = fileExists
      ]_vars

C5_CreateRejects_Witness ==
    /\ mpc = "done"
    /\ cmd = "create"
    /\ IsMalformedInput(arg)
    /\ HasThreeFields(arg) /\ HasNumericTime(arg)
    /\ mreport = "malformed"
    /\ Len(ReadLines(content)) >= 1

\* The argument of delete names a position of a store of n lines.
IsPosition(ix, n) == IntOk(ix) /\ IntVal(ix) \in 0..(n - 1)

\* The sequence without its element at the zero-based position.
WithoutAt(seq, i) ==
    [k \in 1..(Len(seq) - 1) |-> IF k <= i THEN seq[k] ELSE seq[k + 1]]

\* C6: delete(i), run alone on a store of N lines: for 0 <= i < N the store
\* becomes the old lines without the i-th, in their order; for any other i,
\* an i that is no integer, or a missing file, an error is reported and the
\* store is as it was.
C6_Delete ==
    /\ [](mpc = "delete_check" => fileExists /\ mschedules = ReadLines(content))
    /\ [][ (mpc = "idle" /\ cmd' = "delete" /\ ~fileExists) =>
               /\ mpc' = "done"
               /\ mreport' = "not_found"
               /\ fileExists' = fileExists
               /\ content' = content
         ]_vars
    /\ [][ (mpc = "delete_check" /\ mpc' # mpc) =>
               IF IsPosition(arg, Len(mschedules))
               THEN /\ mpc' = "delete_write"
                    /\ mschedules' = WithoutAt(mschedules, IntVal(arg))
               ELSE /\ mpc' = "done"
                    /\ mreport' \in {"index_not_found", "invalid_literal"}
                    /\ content' = content
                    /\ fileExists' = fileExists
         ]_vars
    /\ [][ (mpc = "delete_write" /\ mpc' # mpc) =>
               /\ mpc' = "done"
               /\ mreport' = "deleted"
               /\ fileExists'
               /\ ReadLines(content') = mschedules
         ]_vars

C6_Delete_Witness ==
    /\ mpc = "done"
    /\ cmd = "delete"
    /\ mreport = "deleted"
    /\ arg = <<"1">>
    /\ Len(mschedules) = 2
    /\ ReadLines(content) = mschedules

\* C7: under every interleaving of the commands with the worker's ticks,
\* archive is called at most once for each record that was appended.
C7_AtMostOnce ==
    \A line \in DOMAIN appended : BagCount(archived, line) <= appended[line]


\* isRunning(): the process table holds a worker.
IsRunning == procs # {}

\* The pids of the first n lines of a query's output.
FirstPids(pids, n) == {pids[i] : i \in 1..n}

\* The command of process c is a stop that has ended.
StopEnded(c) ==
    cpc[c] = "done" /\ creport[c] \in {"cant_stop", "stopped", "os_error"}

\* The step is a start command's launch of a worker.
IsLaunch ==
    \E c \in Clis :
        cpc[c] = "start_decide" /\ creport'[c] = "started" /\ launched' = launched + 1

\* C8: under every interleaving of start commands, at most one worker
\* process is running.
C8_NoDuplicateWorker == Cardinality(procs) <= 1

\* C9: with the commands issued one after the other: isRunning is false
\* before any start; right after a start that succeeded it is true; when a
\* stop has succeeded every worker still running has its signal on the way,
\* so that once the signals are delivered isRunning is false; and it stays
\* so until a start launches a worker.
C9_Lifecycle ==
    /\ [](launched = 0 => ~IsRunning)
    /\ [][IsLaunch => IsRunning']_vars
    /\ [](\A c \in Clis :
            (cpc[c] = "done" /\ creport[c] = "stopped") => procs \subseteq pending)
    /\ [][(procs \subseteq pending /\ ~IsLaunch) => procs' \subseteq pending']_vars
    /\ [][(~IsRunning /\ IsRunning') => IsLaunch]_vars

C9_Lifecycle_Witness ==
    /\ launched >= 2
    /\ \E c \in Clis : cpc[c] = "done" /\ creport[c] = "stopped"
    /\ pending = {}
    /\ ~IsRunning

\* C10: a stop that finds no worker reports "not running" and sends no
\* signal; one that finds workers sends a signal to every one of them, and
\* reports success only after all these signals.
C10_StopSignalsAll ==
    \A c \in Clis :
        StopEnded(c) =>
            IF found[c] = <<>>
            THEN creport[c] = "cant_stop" /\ sent[c] = {}
            ELSE /\ creport[c] # "cant_stop"
                 /\ sent[c] = FirstPids(found[c], Len(found[c]))

\* C10, with the error of a process that is gone: a stop that finds workers
\* signals them in the order of the process table; it reports success only
\* after a signal to every one; when a process is gone at its turn, the
\* stop reports the error, never success, and has signalled the processes
\* before that one only.
C10_StopSignalsUntilError ==
    \A c \in Clis :
        /\ sent[c] \subseteq FirstPids(found[c], Len(found[c]))
        /\ StopEnded(c) =>
              IF found[c] = <<>>
              THEN creport[c] = "cant_stop" /\ sent[c] = {}
              ELSE /\ creport[c] # "cant_stop"
                   /\ creport[c] = "stopped" =>
                         sent[c] = FirstPids(found[c], Len(found[c]))
                   /\ creport[c] = "os_error" =>
                         /\ kpos[c] <= Len(found[c])
                         /\ found[c][kpos[c]] \notin procs
                         /\ sent[c] = FirstPids(found[c], kpos[c] - 1)

C10_StopSignalsUntilError_Witness ==
    \E c \in Clis :
        /\ StopEnded(c)
        /\ creport[c] = "os_error"
        /\ kpos[c] < Len(found[c])
        /\ found[c][Len(found[c])] \in procs \ pending


\* ------------------------------------------------- claims on concurrency

\* The step is a read of the file by list or by delete.
ManagerReads == mpc = "idle" /\ cmd' \in {"list", "delete"} /\ fileExists

\* The step is a read of the file by a worker tick.
WorkerReads == wpc = "sleep" /\ wpc' = "loop"

\* What the step's reader got, as lines.
ManagerGot == IF cmd' = "list" THEN listing' ELSE mschedules'

\* What the reader of the command would get from the text.
ManagerWouldGet(data) ==
    IF cmd' = "list"
    THEN [i \in 1..Len(ReadLines(data)) |-> <<i - 1, Strip(ReadLines(data)[i])>>]
    ELSE ReadLines(data)

\* C11: a read of list, of delete or of a worker tick that happens while
\* the worker or delete rewrites the store returns the complete content
\* from before the rewrite or the complete content the rewrite writes.
C11_AtomicRewrite ==
    [][ /\ (ManagerReads /\ wpc = "write") =>
               ManagerGot \in { ManagerWouldGet(wold),
                                ManagerWouldGet(RewriteData(remaining)) }
        /\ (WorkerReads /\ mpc = "delete_write") =>
               schedules' \in { ReadLines(mold), mschedules }
      ]_vars

\* The worker and the manager's command are past their writes: none of them
\* is between opening the file for writing and closing it.
NoWriteUnderWay == wpc # "write" /\ mpc \notin {"create_write", "delete_write"}

\* A rewrite of the worker or of delete that has ended took the line out of
\* the store.
WasRemoved(line) == \E r \in removed : r.line = line

\* The line left the store in a way a record may leave it: a tick fired it,
\* a tick found its time elapsed, or a delete named its position.
WasRetired(line) ==
    \/ BagCount(archived, line) >= 1
    \/ \E r \in removed : r.line = line /\ r.why \in {"fire", "past", "deleted"}

\* C14: under every interleaving of the commands with the worker's ticks,
\* a record that a delete or a tick has removed from the store is not in the
\* store in any later state, unless a create has appended it again.
C14_DestructionFinal ==
    \A line \in DOMAIN appended :
        (appended[line] = 1 /\ WasRemoved(line)) => ~InStore(line)

\* C15: under every interleaving, a record that a create has appended is in
\* the store until a tick fires it, a tick finds its time elapsed or a
\* delete names its position; a create between a tick's read and the tick's
\* rewrite is in the store after the rewrite.
C15_NoSilentLoss ==
    NoWriteUnderWay =>
        \A line \in DOMAIN appended : InStore(line) \/ WasRetired(line)

\* The step is the worker's write, after the write of a delete that read
\* the store when the worker had read it and neither had opened it for
\* writing; both have lines to write.
WorkerWritesLater ==
    /\ racing
    /\ wpc = "write" /\ wpc' = "done"
    /\ mpc = "done" /\ cmd = "delete" /\ mreport = "deleted"
    /\ remaining # <<>> /\ mschedules # <<>>

\* The same, with the delete's write after the worker's.
DeleteWritesLater ==
    /\ racing
    /\ mpc = "delete_write" /\ mpc' = "done"
    /\ wpc = "done" /\ NeedsRewrite(remaining, schedules)
    /\ remaining # <<>> /\ mschedules # <<>>

\* C16: when a delete and a worker tick have both read the store before
\* either writes, the store after the later of the two writes is exactly
\* what that write wrote.
C16_LastWriterWins ==
    [][ /\ WorkerWritesLater => content' = RewriteData(remaining)
        /\ DeleteWritesLater => content' = Concat(mschedules)
      ]_vars


\* ------------------------------------------------ claims on the worker loop

\* C12: the worker loop does not end on its own: whatever is raised during
\* a tick, a log failure included, is caught, and the tick reaches the sleep.
C12_WorkerNeverTerminates == wpc # "crashed"


\* ------------------------------------------------------- claims on list

ParsesAsRecord(s) == CountChar(s, SEMI) = 2 /\ HasNumericTime(s)

\* How many lines of the file hold the line.
StoreCount(line) ==
    Cardinality({i \in 1..Len(ReadLines(content)) :
                    Strip(ReadLines(content)[i]) = line})

\* How often the tick reported a parse error for the line.
ReportsFor(line) ==
    Cardinality({i \in 1..Len(parseErrors) : parseErrors[i] = line})

\* The tick has reported the line that does not parse, called no archive
\* for it and left it out of the store.
DroppedWithReport(line) ==
    /\ ReportsFor(line) = ReadCount(line)
    /\ CallsFor(line) = 0
    /\ ~InStore(line)

\* Every record of the lines read with a time after now is in the store as
\* often as it was read.
FutureRecordsKept ==
    \A i \in 1..Len(schedules) :
        ScheduledAfter(schedules[i], now) =>
            StoreCount(Strip(schedules[i])) = ReadCount(Strip(schedules[i]))

\* C17: a tick reports a parse error for every store line that does not
\* parse as a record, calls no archive for it and leaves it out of the
\* store; the future records of the same store are still in it.
C17_MalformedDropped ==
    TickDone =>
        /\ \A i \in 1..Len(schedules) :
              ~ParsesAsRecord(Strip(schedules[i])) =>
                  DroppedWithReport(Strip(schedules[i]))
        /\ FutureRecordsKept

\* C17, with blank lines apart: a tick reports a parse error for every
\* store line that is not blank and does not parse as a record, calls no
\* archive for it and leaves it out of the store; a blank line is left out
\* of the store as well, with no report; the future records of the same
\* store are still in it.
C17_MalformedDroppedBlankSilently ==
    TickDone =>
        /\ \A i \in 1..Len(schedules) :
              ~ParsesAsRecord(Strip(schedules[i])) =>
                  IF Strip(schedules[i]) = <<>>
                  THEN ReportsFor(<<>>) = 0 /\ ~InStore(<<>>)
                  ELSE DroppedWithReport(Strip(schedules[i]))
        /\ FutureRecordsKept

C17_MalformedDroppedBlankSilently_Witness ==
    /\ TickDone
    /\ Len(schedules) = 3
    /\ \E i \in 1..3 : Strip(schedules[i]) = <<>>
    /\ \E i \in 1..3 : Strip(schedules[i]) # <<>> /\ ~ParsesAsRecord(Strip(schedules[i]))
    /\ \E i \in 1..3 : ScheduledAfter(schedules[i], now) /\ InStore(Strip(schedules[i]))
    /\ Len(parseErrors) = 1
    /\ Len(ReadLines(content)) = 1

\* The lines that hold a record with a time after t, as they are.
RECURSIVE FutureLines(_, _)
FutureLines(lines, t) ==
    IF lines = <<>> THEN <<>>
    ELSE (IF ScheduledAfter(Head(lines), t) THEN <<Head(lines)>> ELSE <<>>)
         \o FutureLines(Tail(lines), t)

\* C18: the store after a tick holds exactly the lines of the store before
\* it whose record has a time after now, unaltered and in their order; the
\* lines of fired, past-due and malformed records are gone.
C18_TickOnlyRemoves ==
    TickDone => ReadLines(content) = FutureLines(schedules, now)

\* C19: a record that create accepted, with a time of hour h and minute m,
\* is fired by a tick that runs alone at h:m: archive is called for it and
\* it is not in the store after the tick.
C19_ValidatorWorkerAgree ==
    TickDone =>
        \A i \in 1..Len(schedules) :
            (/\ BagCount(appended, Strip(schedules[i])) >= 1
             /\ IsValidInput(Strip(schedules[i]))
             /\ ScheduledAt(schedules[i], now)) =>
                /\ CallsFor(Strip(schedules[i])) >= 1
                /\ ~InStore(Strip(schedules[i]))

\* The records among the lines a schedule file starts with whose time is a
\* time of the clock.
RecordsOnClock ==
    { Strip(l) : l \in { r \in TickLines :
        \E k \in 1..Len(ClockTimes) : ScheduledAt(r, ClockTimes[k]) } }

\* C20: with a tick in every minute and no command, every record in the
\* store whose minute comes is out of the store at some later time.
C20_EventualRetirement ==
    \A line \in RecordsOnClock : InStore(line) ~> ~InStore(line)

\* C20, for the records whose time is written as the clock writes it
\* ("%H:%M"): each of them is out of the store at some later time.
C20_EventualRetirementPadded ==
    \A line \in { r \in RecordsOnClock :
                    \E k \in 1..Len(ClockTimes) :
                        SchedTimeStr(r) = StrfHM(ClockTimes[k]) } :
        InStore(line) ~> ~InStore(line)

====
